---- MODULE Spec2Model ----
(***************************************************************************)
(* A model of the GEOG392 lab tools:                                       *)
(*   Labs/Lab4/lab4_arcpy_tool.py   (ArcPy buffer + intersect script tool) *)
(*   Labs/Lab4/lab4_geopandas.py    (the same workflow on GeoPandas)       *)
(*   Labs/Lab5/lab5_GISP_tool.py    (select + buffer + clip console tool)  *)
(*                                                                         *)
(* Names (layer names, field names) are sequences of one-character strings *)
(* so that lower-casing and the regular-expression searches of the source  *)
(* are computed, not assumed.  Names of the layers the tools write are     *)
(* plain strings.  A coordinate reference system is its EPSG code, 0 for   *)
(* "no CRS" (Python None).                                                 *)
(***************************************************************************)
EXTENDS Integers, Sequences, FiniteSets, TLC

VARIABLES
    schema,     \* _detect_xy_fields: the table's fields, in ListFields order
    xy,         \* _detect_xy_fields: the call's result
    rws,        \* _find_candidate_featureclass: feature class names, in ListFeatureClasses order
    rcands,     \* _find_candidate_featureclass: the candidate list
    rres,       \* _find_candidate_featureclass: the call's result
    cin,        \* ensure_projected_for_buffer: the argument
    cout,       \* ensure_projected_for_buffer: the call's outcome
    tool,       \* the script this session runs: "arc", "geo" or "lab5" ("" in a component's own specification)
    in_gdb,         \* lab4_arcpy_tool: the input geodatabase
    csv_or_table,   \* lab4_arcpy_tool: the table named by parameter 1
    out_gdb,        \* lab4_arcpy_tool: the output geodatabase
    input_src,      \* lab4_geopandas: the workspace that is read
    output_path,    \* lab4_geopandas: the output GeoPackage and its folder
    GDB_Folder,     \* lab5_GISP_tool: whether the folder exists
    Campus_GDB,     \* lab5_GISP_tool: Campus.gdb and its Structures feature class
    GDB_Full,       \* lab5_GISP_tool: the geodatabase the tool writes
    outcome,    \* how the last run ended ("none" before a run)
    calls,      \* the geoprocessing calls of the last run, in order
    args        \* the arguments of the last run; for lab4_geopandas, the session's
                \* command line, and whether its pyproj estimates UTM systems

pureVars == <<schema, xy, rws, rcands, rres, cin, cout>>

arcVars == <<in_gdb, csv_or_table, out_gdb>>

geoVars == <<input_src, output_path>>

lab5Vars == <<GDB_Folder, Campus_GDB, GDB_Full>>

runVars == <<outcome, calls, args>>

vars == <<pureVars, tool, arcVars, geoVars, lab5Vars, runVars>>

----------------------------------------------------------------------------
(* Characters and names *)

Upper == <<"A","B","C","D","E","F","G","H","I","J","K","L","M",
           "N","O","P","Q","R","S","T","U","V","W","X","Y","Z">>

LowerAlpha == <<"a","b","c","d","e","f","g","h","i","j","k","l","m",
                "n","o","p","q","r","s","t","u","v","w","x","y","z">>

\* the lower-case letter of each upper-case letter
LowerOf == [c \in {Upper[i] : i \in 1..26} |-> LowerAlpha[CHOOSE i \in 1..26 : Upper[i] = c]]

\* str.lower() on one character
LowerChar(c) == IF c \in DOMAIN LowerOf THEN LowerOf[c] ELSE c

\* str.lower()
Lower(s) == [i \in 1..Len(s) |-> LowerChar(s[i])]

\* pattern occurs somewhere in s (an unanchored alternative of re.search)
Contains(s, pat) ==
    \E i \in 1..(Len(s) - Len(pat) + 1) : SubSeq(s, i, i + Len(pat) - 1) = pat

\* Python None for a name
NoName == <<>>

----------------------------------------------------------------------------
(* Field Heuristic Detector: lab4_arcpy_tool.py _detect_xy_fields *)

\* the field types the fallback accepts as numeric
NumericTypes == {"Double", "Single", "Integer", "SmallInteger"}

\* re.search(r"(^x$|lon|long|longitude)", n, re.I)
XPattern(n) ==
    LET l == Lower(n) IN
        \/ l = <<"x">>
        \/ Contains(l, <<"l","o","n">>)
        \/ Contains(l, <<"l","o","n","g">>)
        \/ Contains(l, <<"l","o","n","g","i","t","u","d","e">>)

\* the Y pattern with its first alternative unanchored: r"(y|lat|latitude)"
YPattern_unanchored(n) ==
    LET l == Lower(n) IN
        \/ Contains(l, <<"y">>)
        \/ Contains(l, <<"l","a","t">>)
        \/ Contains(l, <<"l","a","t","i","t","u","d","e">>)

\* re.search(r"(^y$|lat|latitude)", n, re.I)
YPattern(n) ==
    LET l == Lower(n) IN
        \/ l = <<"y">>
        \/ Contains(l, <<"l","a","t">>)
        \/ Contains(l, <<"l","a","t","i","t","u","d","e">>)

\* [f.name for f in s] : the names of a list of fields, order preserved
Names(s) == [i \in 1..Len(s) |-> s[i].name]

IsXField(f) == XPattern(f.name)

IsYField(f) == YPattern(f.name)

IsNumericField(f) == f.type \in NumericTypes

\* [n for n in names if re.search(<x pattern>, n, re.I)]
x_candidates(fields) == Names(SelectSeq(fields, IsXField))

\* [n for n in names if re.search(<y pattern>, n, re.I)]
y_candidates(fields) == Names(SelectSeq(fields, IsYField))

\* [f.name for f in fields if f.type in ('Double','Single','Integer','SmallInteger')]
num_fields(fields) == Names(SelectSeq(fields, IsNumericField))

\* whether the numeric fallback branch is entered
UsesFallback(fields) == x_candidates(fields) = <<>> \/ y_candidates(fields) = <<>>

_detect_xy_fields(fields) ==
    IF UsesFallback(fields)
    THEN IF Len(num_fields(fields)) >= 2
         THEN [x |-> num_fields(fields)[1], y |-> num_fields(fields)[2]]
         ELSE [x |-> NoName, y |-> NoName]
    ELSE [x |-> x_candidates(fields)[1], y |-> y_candidates(fields)[1]]

----------------------------------------------------------------------------
(* Field names and schemas the detector is exercised on *)

MaxFields == 3

n_id == <<"i","d">>
n_capacity == <<"c","a","p","a","c","i","t","y">>
n_X == <<"X">>
n_Y == <<"Y">>
n_lon == <<"l","o","n">>
n_lat == <<"l","a","t">>
n_a == <<"a">>
n_b == <<"b">>
n_name == <<"n","a","m","e">>
n_Longitude == <<"L","o","n","g","i","t","u","d","e">>
n_LAT == <<"L","A","T">>
n_colon == <<"c","o","l","o","n">>
n_population == <<"p","o","p","u","l","a","t","i","o","n">>
n_lonlat == <<"l","o","n","l","a","t">>

\* the four schemas of the specification's field-detection examples
RefXY == <<n_id, n_capacity, n_X, n_Y>>
RefLonLat == <<n_id, n_lon, n_lat>>
RefAB == <<n_id, n_a, n_b>>
RefName == <<n_id, n_name>>
RefSchemas == {RefXY, RefLonLat, RefAB, RefName}

GenNames == {n_X, n_Longitude, n_LAT, n_colon, n_population, n_lonlat, n_a, n_b}

FieldTypes == {"String", "Double", "SmallInteger"}

\* sequences over S without repetition, of length at most n
RECURSIVE DistinctSeqs(_, _)
DistinctSeqs(S, n) ==
    IF n = 0 THEN {<<>>}
    ELSE LET shorter == DistinctSeqs(S, n - 1) IN
         shorter \cup
         UNION {{Append(t, e) : e \in S \ {t[i] : i \in 1..Len(t)}} :
                    t \in {u \in shorter : Len(u) = n - 1}}

NameLists == RefSchemas \cup DistinctSeqs(GenNames, MaxFields)

\* every schema with these field names, over all declared types
SchemasOf(names) ==
    {[i \in 1..Len(names) |-> [name |-> names[i], type |-> ty[i]]] :
        ty \in [1..Len(names) -> FieldTypes]}

XYPending == [done |-> FALSE, x |-> NoName, y |-> NoName]

\* one call of _detect_xy_fields on the table
Detect ==
    /\ ~xy.done
    /\ xy' = [done |-> TRUE,
              x |-> _detect_xy_fields(schema).x,
              y |-> _detect_xy_fields(schema).y]
    /\ UNCHANGED <<schema, rws, rcands, rres, cin, cout, tool, arcVars, geoVars, lab5Vars, runVars>>

----------------------------------------------------------------------------
(* Layer Resolver: lab4_arcpy_tool.py _find_candidate_featureclass *)

SetMin(S) == CHOOSE m \in S : \A k \in S : m <= k

\* arcpy.Exists(os.path.join(workspace, n)) : a dataset of exactly that name
Exists(fcs, n) == \E k \in 1..Len(fcs) : fcs[k] = n

\* the resolver with the loops of its second pass exchanged (for f in fcs: for n
\* in names): the workspace's enumeration order decides among loose matches
_find_by_workspace_order(fcs, names) ==
    LET exact == {i \in 1..Len(names) : Exists(fcs, names[i])}
        hits == {k \in 1..Len(fcs) :
                    \E i \in 1..Len(names) : Lower(fcs[k]) = Lower(names[i])}
    IN  IF exact # {} THEN names[SetMin(exact)]
        ELSE IF fcs # <<>> /\ hits # {} THEN fcs[SetMin(hits)]
        ELSE NoName

\* fcs: arcpy.ListFeatureClasses() of the workspace, in its order
_find_candidate_featureclass(fcs, names) ==
    LET exact == {i \in 1..Len(names) : Exists(fcs, names[i])}
        loose == {i \in 1..Len(names) :
                     \E k \in 1..Len(fcs) : Lower(fcs[k]) = Lower(names[i])}
    IN  IF exact # {} THEN names[SetMin(exact)]
        ELSE IF fcs # <<>> /\ loose # {}
             THEN LET n == names[SetMin(loose)] IN
                  fcs[SetMin({k \in 1..Len(fcs) : Lower(fcs[k]) = Lower(n)})]
             ELSE NoName

MaxLayers == 3

MaxCands == 2

l_GaragePoints == <<"G","a","r","a","g","e","P","o","i","n","t","s">>
l_garagepoints == <<"g","a","r","a","g","e","p","o","i","n","t","s">>
l_GARAGEPOINTS == <<"G","A","R","A","G","E","P","O","I","N","T","S">>
l_garages == <<"g","a","r","a","g","e","s">>
l_Garages == <<"G","a","r","a","g","e","s">>
l_GARAGES == <<"G","A","R","A","G","E","S">>
l_Structures == <<"S","t","r","u","c","t","u","r","e","s">>
l_structures == <<"s","t","r","u","c","t","u","r","e","s">>
l_STRUCTURES == <<"S","T","R","U","C","T","U","R","E","S">>
l_Trees == <<"T","r","e","e","s">>

\* main: the candidate names of the garages layer, in priority order
GarageCandidates == <<l_GaragePoints, l_garagepoints, l_garages, l_Garages>>

\* main: the candidate names of the structures layer
StructureCandidates == <<l_Structures, l_structures>>

LayerNames == {l_GaragePoints, l_GARAGEPOINTS, l_garages, l_GARAGES,
               l_Structures, l_STRUCTURES, l_Trees}

CandLists ==
    {GarageCandidates, StructureCandidates}
        \cup (DistinctSeqs({l_garages, l_GaragePoints, l_Structures, l_structures},
                           MaxCands) \ {<<>>})

ResolvePending == [done |-> FALSE, fc |-> NoName]

\* one call of _find_candidate_featureclass on the workspace
Find ==
    /\ ~rres.done
    /\ rres' = [done |-> TRUE, fc |-> _find_candidate_featureclass(rws, rcands)]
    /\ UNCHANGED <<schema, xy, rws, rcands, cin, cout, tool, arcVars, geoVars, lab5Vars, runVars>>

----------------------------------------------------------------------------
(* Coordinate Reference Resolver: lab4_geopandas.py ensure_projected_for_buffer *)

\* CRS.from_epsg(3857), Web Mercator, units in meters
WebMercator == 3857

\* no CRS (crs is None)
NoCRS == 0

\* the geographic (angular-unit) systems of the model: WGS 84 and NAD 83
GeographicCRS == {4326, 4269}

\* crs.is_geographic
is_geographic(crs) == crs \in GeographicCRS

\* a CRS with linear units: one that is present and not geographic
IsProjected(crs) == crs # NoCRS /\ ~is_geographic(crs)

\* the UTM zone system for a point: EPSG 326zz north, 327zz south of the equator
UTMFor(lat, lon) ==
    LET zone == ((lon + 180) \div 6) + 1 IN
    IF lat >= 0 THEN 32600 + zone ELSE 32700 + zone

\* Python None for a GeoDataFrame
NoneGdf == [none |-> TRUE, crs |-> NoCRS, n |-> 0, lon |-> 0, lat |-> 0, buf |-> 0]

\* gdf.empty : no rows
empty(gdf) == gdf.n = 0

Returned(gdf) == [raised |-> FALSE, gdf |-> gdf]

Raised == [raised |-> TRUE, gdf |-> NoneGdf]

\* GeoDataFrame.to_crs(crs): raises on a frame without CRS ("Cannot transform
\* naive geometries") and on a missing target; else the frame in the target CRS
to_crs(gdf, crs) ==
    IF gdf.crs = NoCRS \/ crs = NoCRS THEN Raised
    ELSE Returned([gdf EXCEPT !.crs = crs])

\* utmOk: whether CRS.estimate_utm_crs(centroid.y, centroid.x) yields a CRS;
\* when it raises (no centroid coordinates, library error) the except branch runs
ensure_projected_for_buffer(gdf, utmOk) ==
    IF gdf.none \/ empty(gdf) THEN Returned(gdf)
    ELSE IF gdf.crs = NoCRS \/ is_geographic(gdf.crs)
         THEN LET utm_crs == IF utmOk THEN UTMFor(gdf.lat, gdf.lon)
                             ELSE WebMercator
              IN  to_crs(gdf, utm_crs)
         ELSE Returned(gdf)

MaxFeatures == 2

CRSCodes == {NoCRS, 4326, 4269, 32614, WebMercator}

Lons == {-97, -93, 3}

Lats == {30, -10}

Gdfs ==
    [none : {FALSE}, crs : CRSCodes, n : 0..MaxFeatures, lon : Lons, lat : Lats, buf : {0}]

\* utmOk: whether CRS.estimate_utm_crs yielded a CRS in that call
CRSPending == [done |-> FALSE, raised |-> FALSE, gdf |-> NoneGdf, utmOk |-> FALSE]

\* one call of ensure_projected_for_buffer
Ensure ==
    /\ ~cout.done
    /\ \E utmOk \in BOOLEAN :
         LET r == ensure_projected_for_buffer(cin, utmOk) IN
         cout' = [done |-> TRUE, raised |-> r.raised, gdf |-> r.gdf, utmOk |-> utmOk]
    /\ UNCHANGED <<schema, xy, rws, rcands, rres, cin, tool, arcVars, geoVars, lab5Vars, runVars>>

----------------------------------------------------------------------------
(* Layers, workspaces and the record of geoprocessing calls *)

\* where a geometry came from: op "src" a feature class (id g), "xy" a table,
\* "buf" the buffer by d tenths of a meter of garage geometry g,
\* "int" the intersection of that buffer with structures geometry s
Geom(op, g, s, d) == [op |-> op, g |-> g, s |-> s, d |-> d]

\* a feature class: its CRS and its geometry
Layer(crs, geom) == [crs |-> crs, geom |-> geom]

\* a geodatabase that does not exist
NoGdb == [exists |-> FALSE, layers |-> <<>>]

\* arcpy.Exists(os.path.join(gdb, name)) for a layer the tools write
HasLayer(gdb, name) == gdb.exists /\ name \in DOMAIN gdb.layers

\* the layer written under name (replacing one of that name)
WithLayer(gdb, name, layer) ==
    [gdb EXCEPT !.layers = (name :> layer) @@ gdb.layers]

\* one geoprocessing call: the tool, the output name, whether a layer of that
\* name was in the destination when it was called, and the CRS of its operands
Call(op, gdb, out, crsA, crsB) ==
    [op |-> op, out |-> out, existed |-> HasLayer(gdb, out), a |-> crsA, b |-> crsB]

\* the calls of a log that are of one tool
CallsOf(log, op) == {i \in 1..Len(log) : log[i].op = op}

----------------------------------------------------------------------------
(* lab4_arcpy_tool.py *)

\* arcpy.SpatialReference(3857), Web Mercator (meters)
target_sr == 3857

\* what XYTableToPoint assigns when no coordinate system is given: WGS 84
XYDefaultCRS == 4326

Digits == <<"0","1","2","3","4","5","6","7","8","9">>

IsDigit(c) == \E i \in 1..10 : Digits[i] = c

DigitVal(c) == (CHOOSE i \in 1..10 : Digits[i] = c) - 1

\* the value of a string of digits
RECURSIVE DigitsVal(_)
DigitsVal(s) ==
    IF s = <<>> THEN 0
    ELSE 10 * DigitsVal(SubSeq(s, 1, Len(s) - 1)) + DigitVal(s[Len(s)])

AllDigits(s) == s # <<>> /\ \A i \in 1..Len(s) : IsDigit(s[i])

\* float(text), in tenths of a meter, for texts "ddd" and "ddd.d";
\* any other text raises ValueError
float(s) ==
    IF AllDigits(s) THEN [ok |-> TRUE, v |-> 10 * DigitsVal(s)]
    ELSE IF /\ Len(s) >= 3
            /\ s[Len(s) - 1] = "."
            /\ AllDigits(SubSeq(s, 1, Len(s) - 2))
            /\ IsDigit(s[Len(s)])
         THEN [ok |-> TRUE,
               v |-> 10 * DigitsVal(SubSeq(s, 1, Len(s) - 2)) + DigitVal(s[Len(s)])]
         ELSE [ok |-> FALSE, v |-> 0]

\* main: float(buffer_meters) if buffer_meters not in (None, '', 'None') else 150.0
buffer_meters_of(s) ==
    IF s = <<>> \/ s = <<"N","o","n","e">> THEN [ok |-> TRUE, v |-> 1500]
    ELSE float(s)

\* int(buffer_meters): truncation of a non-negative number of tenths
int(v) == v \div 10

\* f"Garage_Buffer_{int(buffer_meters)}m"
buffer_name(v) == "Garage_Buffer_" \o ToString(int(v)) \o "m"

\* the names of the feature classes of the input geodatabase, in list order
FcNames(gdb) == [i \in 1..Len(gdb.fcs) |-> gdb.fcs[i].name]

\* the feature class of that name in the input geodatabase
FcNamed(gdb, name) ==
    gdb.fcs[SetMin({i \in 1..Len(gdb.fcs) : gdb.fcs[i].name = name})].layer

\* create_output_gdb: an existing geodatabase is kept, a missing one is created empty
create_output_gdb(gdb) ==
    IF gdb.exists THEN gdb ELSE [exists |-> TRUE, layers |-> <<>>]

\* arcpy.management.Project: the input's features in the target system
Project(layer, sr) == [layer EXCEPT !.crs = sr]

\* arcpy.analysis.Buffer: one polygon per input feature, in the input's system
Buffer(layer, v) == Layer(layer.crs, Geom("buf", layer.geom.g, 0, v))

\* arcpy.analysis.Intersect([a, b]): the common part, in the first input's system
Intersect(a, b) == Layer(a.crs, Geom("int", a.geom.g, b.geom.g, a.geom.d))

\* the single element of a one-element set: { f(x) : x \in {e} } names e's value
\* x once, as a local variable of the program holds it
Only(S) == CHOOSE x \in S : TRUE

\* a layer not resolved yet
NoLayer == Layer(NoCRS, Geom("", 0, 0, 0))

\* the state a run of main carries from step to step: the two geodatabases, the
\* calls made, whether no exception was raised, and the two resolved layers
Run(src, dst, log, ok, garage, structures) ==
    [src |-> src, dst |-> dst, log |-> log, ok |-> ok,
     garage |-> garage, structures |-> structures]

\* one arcpy tool called to write layer out: the call is recorded and the layer
\* written under that name
geoprocess(r, op, out, layer, crsA, crsB) ==
    [r EXCEPT !.log = Append(@, Call(op, r.dst, out, crsA, crsB)),
              !.dst = WithLayer(@, out, layer)]

\* project_feature without its arcpy.Exists(out_fc) check
project_feature_always(r, input, out, sr) ==
    IF ~r.ok THEN r
    ELSE geoprocess(r, "Project", out, Project(input, sr), input.crs, sr)

\* project_feature(input_fc, out_fc, target_sr); a run that has raised does nothing
project_feature(r, input, out, sr) ==
    IF ~r.ok THEN r
    ELSE IF HasLayer(r.dst, out) THEN r
    ELSE geoprocess(r, "Project", out, Project(input, sr), input.crs, sr)

\* main, lines 144-151: buffer the projected garages unless the buffer layer exists
buffer_step(r, v) ==
    IF ~r.ok THEN r
    ELSE IF HasLayer(r.dst, buffer_name(v)) THEN r
    ELSE geoprocess(r, "Buffer", buffer_name(v),
                    Buffer(r.dst.layers["GaragePoints_PRJ"], v),
                    r.dst.layers["GaragePoints_PRJ"].crs, NoCRS)

\* the intersect step with its existence test inverted (if arcpy.Exists(intersect_fc))
intersect_step_inverted(r, v) ==
    IF ~r.ok THEN r
    ELSE IF ~HasLayer(r.dst, "Garage_Structures_Intersect") THEN r
    ELSE geoprocess(r, "Intersect", "Garage_Structures_Intersect",
                    Intersect(r.dst.layers[buffer_name(v)],
                              r.dst.layers["Structures_PRJ"]),
                    r.dst.layers[buffer_name(v)].crs,
                    r.dst.layers["Structures_PRJ"].crs)

\* main, lines 153-159: intersect buffer and structures unless the layer exists
intersect_step(r, v) ==
    IF ~r.ok THEN r
    ELSE IF HasLayer(r.dst, "Garage_Structures_Intersect") THEN r
    ELSE geoprocess(r, "Intersect", "Garage_Structures_Intersect",
                    Intersect(r.dst.layers[buffer_name(v)],
                              r.dst.layers["Structures_PRJ"]),
                    r.dst.layers[buffer_name(v)].crs,
                    r.dst.layers["Structures_PRJ"].crs)

\* the point layer XYTableToPoint makes from the table
XYPoints == Layer(XYDefaultCRS, Geom("xy", 0, 0, 0))

\* the table fallback converting the table before it looks at the detected
\* fields: GaragePoints is left in the input geodatabase when the run then raises
garages_from_table_converts_first(r, csv) ==
    IF csv.exists
    THEN IF _detect_xy_fields(csv.fields).x = NoName
            \/ _detect_xy_fields(csv.fields).y = NoName
         THEN [r EXCEPT !.src.fcs = Append(@, [name |-> l_GaragePoints,
                                                layer |-> XYPoints]),
                        !.ok = FALSE]
         ELSE [r EXCEPT !.src.fcs = Append(@, [name |-> l_GaragePoints,
                                                layer |-> XYPoints]),
                        !.log = Append(@, Call("XYTableToPoint", NoGdb, "GaragePoints",
                                               NoCRS, NoCRS)),
                        !.garage = XYPoints]
    ELSE [r EXCEPT !.ok = FALSE]

\* main, lines 109-118: no garages feature class was found; the table, if there
\* is one with detectable coordinate fields, becomes feature class GaragePoints
garages_from_table(r, csv) ==
    IF csv.exists
    THEN IF _detect_xy_fields(csv.fields).x = NoName
            \/ _detect_xy_fields(csv.fields).y = NoName
         THEN [r EXCEPT !.ok = FALSE]
         ELSE [r EXCEPT !.src.fcs = Append(@, [name |-> l_GaragePoints,
                                                layer |-> XYPoints]),
                        !.log = Append(@, Call("XYTableToPoint", NoGdb, "GaragePoints",
                                               NoCRS, NoCRS)),
                        !.garage = XYPoints]
    ELSE [r EXCEPT !.ok = FALSE]

\* main, lines 102-118: the garages layer, found by name or made from the table
resolve_garages(r, csv) ==
    IF ~r.ok THEN r
    ELSE IF _find_candidate_featureclass(FcNames(r.src), GarageCandidates) # NoName
         THEN [r EXCEPT !.garage =
                  FcNamed(r.src, _find_candidate_featureclass(FcNames(r.src),
                                                              GarageCandidates))]
         ELSE garages_from_table(r, csv)

\* main, lines 120-125: the structures layer, found by name
resolve_structures(r) ==
    IF ~r.ok THEN r
    ELSE IF _find_candidate_featureclass(FcNames(r.src), StructureCandidates) = NoName
         THEN [r EXCEPT !.ok = FALSE]
         ELSE [r EXCEPT !.structures =
                  FcNamed(r.src, _find_candidate_featureclass(FcNames(r.src),
                                                              StructureCandidates))]

\* main, lines 127-133
output_step(r) == IF ~r.ok THEN r ELSE [r EXCEPT !.dst = create_output_gdb(@)]

\* the projection step leaving the structures in their own coordinate system
project_step_structures_kept(r) ==
    Only({project_feature(p, p.structures, "Structures_PRJ", p.structures.crs) :
            p \in {project_feature(r, r.garage, "GaragePoints_PRJ", target_sr)}})

\* main, lines 141-142
project_step(r) ==
    Only({project_feature(p, p.structures, "Structures_PRJ", target_sr) :
            p \in {project_feature(r, r.garage, "GaragePoints_PRJ", target_sr)}})

\* the first part of main with create_output_gdb called before the layers are
\* resolved
resolve_step_output_first(gdb_in, csv, gdb_out, bm) ==
    Only({resolve_structures(p) :
            p \in {resolve_garages(
                       output_step(Run(gdb_in, gdb_out, <<>>, bm.ok /\ gdb_in.exists,
                                       NoLayer, NoLayer)), csv)}})

\* main, lines 89-133: the arguments are normalized, the layers resolved, the
\* output geodatabase made
resolve_step(gdb_in, csv, gdb_out, bm) ==
    Only({output_step(q) :
            q \in {resolve_structures(p) :
                     p \in {resolve_garages(
                                Run(gdb_in, gdb_out, <<>>, bm.ok /\ gdb_in.exists,
                                    NoLayer, NoLayer), csv)}}})

\* main(in_gdb, csv_or_table, out_gdb, buffer_meters, force_sample):
\* the geodatabases after the run, the calls it made, and whether it returned 0
main(gdb_in, csv, gdb_out, text) ==
    Only({intersect_step(r3, bm.v) :
            bm \in {buffer_meters_of(text)},
            r3 \in {buffer_step(r2, b.v) :
                      b \in {buffer_meters_of(text)},
                      r2 \in {project_step(r1) :
                                r1 \in {resolve_step(gdb_in, csv, gdb_out,
                                                     buffer_meters_of(text))}}}})

----------------------------------------------------------------------------
(* lab4_geopandas.py *)

\* main, line 203: the buffer distance in meters
buffer_m == 150

\* create_sample_inputs: two garages and two structures, both in EPSG:4326
SampleInputs ==
    [present |-> TRUE, overlap |-> TRUE,
     garage |-> [none |-> FALSE, crs |-> 4326, n |-> 2, lon |-> -97, lat |-> 30, buf |-> 0],
     structures |-> [none |-> FALSE, crs |-> 4326, n |-> 2, lon |-> -97, lat |-> 30, buf |-> 0]]

\* read_layer_safe: the layer, or None when reading raises
read_layer_safe(ws, layer) == IF ws.present THEN layer ELSE NoneGdf

\* the state a run of the GeoPandas main carries: the output GeoPackage, the calls
\* made, how the run ended ("" while it is running), whether the try block of
\* the writes is still running, and main's local frames
GeoRun(out, log, end, garage_gdf, structures_gdf) ==
    [out |-> out, log |-> log, end |-> end, writing |-> TRUE,
     garage_gdf |-> garage_gdf, structures_gdf |-> structures_gdf,
     garage_proj |-> NoneGdf, structures_proj |-> NoneGdf,
     garage_buffer |-> NoneGdf, intersect_gdf |-> NoneGdf]

\* main, lines 142-160: the output folder is made, the two layers are read, and
\* the run ends when neither could be read
read_step(ws, out) ==
    GeoRun([out EXCEPT !.dir = TRUE], <<>>,
           IF read_layer_safe(ws, ws.garage).none /\ read_layer_safe(ws, ws.structures).none
           THEN "Exiting" ELSE "",
           read_layer_safe(ws, ws.garage), read_layer_safe(ws, ws.structures))

\* main, lines 162-167: the garages' CRS if they have one, else the structures'
target_crs_of(garage_gdf, structures_gdf) ==
    IF ~garage_gdf.none /\ garage_gdf.crs # NoCRS THEN garage_gdf.crs
    ELSE IF ~structures_gdf.none /\ structures_gdf.crs # NoCRS THEN structures_gdf.crs
    ELSE NoCRS

\* main, lines 176-180: one layer brought to target_crs
align(gdf, target_crs) ==
    IF target_crs # NoCRS /\ ~gdf.none /\ gdf.crs # target_crs
    THEN to_crs(gdf, target_crs)
    ELSE Returned(gdf)

\* main, lines 162-180
align_step(r) ==
    IF r.end # "" THEN r
    ELSE Only({IF g.raised \/ s.raised THEN [r EXCEPT !.end = "raised"]
               ELSE [r EXCEPT !.garage_gdf = g.gdf, !.structures_gdf = s.gdf] :
                   g \in {align(r.garage_gdf,
                                target_crs_of(r.garage_gdf, r.structures_gdf))},
                   s \in {align(r.structures_gdf,
                                target_crs_of(r.garage_gdf, r.structures_gdf))}})

\* main, lines 189-192
garage_proj_step(r, utmOk) ==
    IF r.end # "" \/ r.garage_gdf.none THEN r
    ELSE Only({IF g.raised THEN [r EXCEPT !.end = "raised"]
               ELSE [r EXCEPT !.garage_proj = g.gdf] :
                   g \in {ensure_projected_for_buffer(r.garage_gdf, utmOk)}})

\* main, lines 193-200
structures_proj_step(r, utmOk) ==
    IF r.end # "" \/ r.structures_gdf.none THEN r
    ELSE Only({IF s.raised THEN [r EXCEPT !.end = "raised"]
               ELSE [r EXCEPT !.structures_proj = s.gdf] :
                   s \in {IF ~r.garage_proj.none
                          THEN to_crs(r.structures_gdf, r.garage_proj.crs)
                          ELSE ensure_projected_for_buffer(r.structures_gdf, utmOk)}})

\* main, lines 203-208: the buffered garages, or None
buffer_gdf_step(r) ==
    IF r.end # "" THEN r
    ELSE IF ~r.garage_proj.none /\ ~empty(r.garage_proj)
         THEN [r EXCEPT !.garage_buffer = [r.garage_proj EXCEPT !.buf = buffer_m]]
         ELSE r

\* whether main calls gpd.overlay (line 211)
overlay_called(r) ==
    ~r.garage_buffer.none /\ ~r.structures_proj.none /\ ~empty(r.structures_proj)

\* main, lines 211-214: the overlay of structures and buffer, or an empty frame;
\* overlap tells whether the operands have a common part
overlay_step(r, overlap) ==
    IF r.end # "" THEN r
    ELSE IF overlay_called(r)
         THEN [r EXCEPT !.intersect_gdf =
                            [r.structures_proj EXCEPT !.n = IF overlap THEN 1 ELSE 0],
                        !.log = Append(@, Call("overlay", r.out,
                                               "Garage_Structures_Intersect",
                                               r.structures_proj.crs,
                                               r.garage_buffer.crs))]
         ELSE [r EXCEPT !.intersect_gdf =
                            [none |-> FALSE, crs |-> r.garage_buffer.crs, n |-> 0,
                             lon |-> r.garage_buffer.lon, lat |-> r.garage_buffer.lat,
                             buf |-> 0]]

\* GeoDataFrame.to_file(output_path, layer=name): the k-th write of the run;
\* failAt names the write that raises (0: none), which ends the try block and is
\* reported ('Error writing outputs:')
to_file(r, k, wanted, name, gdf, failAt) ==
    IF r.end # "" \/ ~r.writing \/ ~wanted THEN r
    ELSE IF failAt = k
         THEN [r EXCEPT !.writing = FALSE,
                        !.log = Append(@, Call("to_file raised", r.out, name, gdf.crs, NoCRS))]
    ELSE [r EXCEPT !.out.exists = TRUE,
                   !.out.layers = (name :> gdf) @@ @,
                   !.log = Append(@, Call("to_file", r.out, name, gdf.crs, NoCRS))]

\* main, lines 220-230, and the end of main
write_step(r, failAt) ==
    Only({IF w4.end = "" THEN [w4 EXCEPT !.end = "Done"] ELSE w4 :
            w4 \in {to_file(w3, 4, ~w3.intersect_gdf.none /\ ~empty(w3.intersect_gdf),
                            "Garage_Structures_Intersect", w3.intersect_gdf, failAt) :
            w3 \in {to_file(w2, 3, ~w2.garage_buffer.none,
                            "Garage_Buffer_150m", w2.garage_buffer, failAt) :
            w2 \in {to_file(w1, 2, ~w1.structures_proj.none,
                            "Structures_PRJ", w1.structures_proj, failAt) :
            w1 \in {to_file(r, 1, ~r.garage_proj.none,
                            "GaragePoints_PRJ", r.garage_proj, failAt)}}}}})

\* main, from reading the layers (line 142) on
geo_pipeline(ws, out, utmOk, failAt) ==
    Only({write_step(r5, failAt) :
            r5 \in {overlay_step(r4, ws.overlap) :
            r4 \in {buffer_gdf_step(r3) :
            r3 \in {structures_proj_step(r2, utmOk) :
            r2 \in {garage_proj_step(r1, utmOk) :
            r1 \in {align_step(read_step(ws, out))}}}}}})

\* the workspace main reads: the sample inputs it makes, the one that --input
\* names, or the one find_first_gdb_or_folder finds (ws); none when main gives up
source_of(ws, force_sample, input_given, cwd_safe) ==
    IF force_sample THEN [some |-> TRUE, ws |-> SampleInputs]
    ELSE IF ~input_given
         THEN IF ws.present THEN [some |-> TRUE, ws |-> ws]
              ELSE IF cwd_safe THEN [some |-> TRUE, ws |-> SampleInputs]
              ELSE [some |-> FALSE, ws |-> ws]
         ELSE [some |-> TRUE, ws |-> ws]

\* main(): force_sample, input_given (--input) and cwd_safe are the arguments;
\* utmOk: whether CRS.estimate_utm_crs yields a CRS in this installation
geo_main(ws, out, force_sample, input_given, cwd_safe, utmOk, failAt) ==
    IF source_of(ws, force_sample, input_given, cwd_safe).some
    THEN geo_pipeline(source_of(ws, force_sample, input_given, cwd_safe).ws,
                      out, utmOk, failAt)
    ELSE GeoRun(out, <<>>, "Exiting", NoneGdf, NoneGdf)

----------------------------------------------------------------------------
(* lab5_GISP_tool.py *)

\* the concatenation of a sequence of strings
RECURSIVE Join(_)
Join(s) == IF s = <<>> THEN "" ELSE Head(s) \o Join(Tail(s))

\* Selected_Name.replace(' ', '_')
replace_spaces(s) == [i \in 1..Len(s) |-> IF s[i] = " " THEN "_" ELSE s[i]]

\* f"clip_{Selected_Name.replace(' ', '_')}"
clip_name(Selected_Name) == "clip_" \o Join(replace_spaces(Selected_Name))

\* Garage_Layer_Name + "_xy", for the garage layer name "garages"
xy_layer_name == "garages_xy"

\* arcpy.analysis.Select: the features of that building, in the input's system
Select(layer, k) == Layer(layer.crs, Geom("sel", layer.geom.g, k, 0))

\* arcpy.analysis.Buffer with dissolve_option="ALL"
BufferAll(layer, radius) ==
    Layer(layer.crs, Geom("buf", layer.geom.g, layer.geom.s, radius))

\* arcpy.analysis.Clip: the input features inside the clip features, in the input's system
Clip(layer, clip_features) ==
    Layer(layer.crs,
          Geom("clip", layer.geom.g, clip_features.geom.s, clip_features.geom.d))

\* an arcpy tool run with env.overwriteOutput = True: the call is made and the
\* output layer written whether or not one of that name exists
overwrite(r, op, out, layer, crsA, crsB) ==
    [r EXCEPT !.log = Append(@, Call(op, r.dst, out, crsA, crsB)),
              !.dst = WithLayer(@, out, layer)]

\* main, lines 50-83: the geodatabase is created when missing, and the table is
\* imported when MakeXYEventLayer accepts one of the four field pairs (pair > 0)
lab5_import(r, csv_present, pair) ==
    IF csv_present /\ pair > 0
    THEN overwrite([r EXCEPT !.dst = create_output_gdb(@)],
                   "FeatureClassToGeodatabase", xy_layer_name,
                   Layer(4326, Geom("xy", 0, 0, 0)), NoCRS, NoCRS)
    ELSE [r EXCEPT !.dst = create_output_gdb(@)]

\* the position of the building in the BldgName values, 0 when it is not there
BldgIndex(campus, Selected_Name) ==
    IF \E k \in 1..Len(campus.names) : campus.names[k] = Selected_Name
    THEN SetMin({k \in 1..Len(campus.names) : campus.names[k] = Selected_Name})
    ELSE 0

\* main, lines 120-133: Select, Buffer, Clip
lab5_analysis(r, Selected_Name, Buffer_Radius) ==
    Only({overwrite(r2, "Clip", clip_name(Selected_Name),
                    Clip(r.structures, r2.dst.layers["structure_buffer"]),
                    r.structures.crs, r2.dst.layers["structure_buffer"].crs) :
            r2 \in {overwrite(r1, "Buffer", "structure_buffer",
                              BufferAll(r1.dst.layers["structure_selected"], Buffer_Radius),
                              r1.dst.layers["structure_selected"].crs, NoCRS) :
            r1 \in {overwrite(r, "Select", "structure_selected",
                              Select(r.structures, BldgIndex(r.src, Selected_Name)),
                              r.structures.crs, NoCRS)}}})

\* main(): the run's state and how it ended
lab5_main(folder_exists, campus, gdb, csv_present, pair, Selected_Name, Buffer_Radius) ==
    IF ~folder_exists \/ ~campus.exists
    THEN [run |-> Run(campus, gdb, <<>>, FALSE, NoLayer, campus.structures),
          end |-> "exit 2"]
    ELSE Only({
        IF ~campus.has_structures \/ ~campus.has_BldgName
        THEN [run |-> [r1 EXCEPT !.ok = FALSE], end |-> "exit 2"]
        ELSE IF BldgIndex(campus, Selected_Name) = 0
             THEN [run |-> [r1 EXCEPT !.ok = FALSE], end |-> "exit 3"]
             ELSE [run |-> lab5_analysis(r1, Selected_Name, Buffer_Radius),
                   end |-> "success"] :
        r1 \in {lab5_import(Run(campus, gdb, <<>>, TRUE, NoLayer, campus.structures),
                            csv_present, pair)}})

----------------------------------------------------------------------------
(* The workspaces the sessions start from, and what each run may be given *)

MaxSrcLayers == 2

MaxGeom == 2

n_Latitude == <<"L","a","t","i","t","u","d","e">>

ArcLayerNames == {l_GARAGES, l_Structures}

SrcCRS == {4326, 32614}

\* the input geodatabases: every list of distinctly named feature classes, each
\* in a geographic or a projected system
ArcSources ==
    {[exists |-> FALSE, fcs |-> <<>>]} \cup
    UNION {
        {[exists |-> TRUE,
          fcs |-> [i \in 1..Len(names) |->
                      [name |-> names[i],
                       layer |-> Layer(crs[i], Geom("src", 1, 0, 0))]]] :
            crs \in [1..Len(names) -> SrcCRS]} :
        names \in DistinctSeqs(ArcLayerNames, MaxSrcLayers)}

\* the table of parameter 1: none, one with coordinate columns, one without
CsvTables ==
    {[exists |-> FALSE, fields |-> <<>>],
     [exists |-> TRUE,
      fields |-> <<[name |-> n_Longitude, type |-> "Double"],
                   [name |-> n_Latitude, type |-> "Double"],
                   [name |-> n_capacity, type |-> "Integer"]>>],
     [exists |-> TRUE,
      fields |-> <<[name |-> n_id, type |-> "String"],
                   [name |-> n_name, type |-> "String"]>>]}

\* the texts of parameter 3 (buffer distance)
BufferTexts ==
    {<<>>, <<"1","5","0",".","2">>, <<"1","5","0",".","8">>, <<"2","0","0">>, <<"x">>}

GeoLayers ==
    [none : {FALSE}, crs : {NoCRS, 4326, 32614}, n : 0..1, lon : {-97}, lat : {30},
     buf : {0}]

\* the workspaces the GeoPandas tool may read; overlap: whether the buffered
\* garages and the structures have a common part
GeoSources ==
    {[present |-> FALSE, garage |-> NoneGdf, structures |-> NoneGdf, overlap |-> FALSE]}
        \cup
    [present : {TRUE}, garage : GeoLayers \cup {NoneGdf},
     structures : GeoLayers \cup {NoneGdf}, overlap : BOOLEAN]

\* the BldgName values of Structures
BldgNames == <<(<<"A">>), (<<"B"," ","B">>)>>

SelectedNames == {<<"A">>, <<"B"," ","B">>, <<"Z">>}

\* Buffer_Radius, in tenths of a meter
Radii == {1500, 2000}

CampusGdbs ==
    {[exists |-> FALSE, has_structures |-> FALSE, has_BldgName |-> FALSE,
      names |-> <<>>, structures |-> Layer(NoCRS, Geom("src", 0, 0, 0))]} \cup
    [exists : {TRUE}, has_structures : {FALSE}, has_BldgName : {FALSE},
     names : {<<>>}, structures : {Layer(NoCRS, Geom("src", 0, 0, 0))}] \cup
    [exists : {TRUE}, has_structures : {TRUE}, has_BldgName : {FALSE},
     names : {<<>>}, structures : {Layer(c, Geom("src", 1, 0, 0)) : c \in SrcCRS}] \cup
    [exists : {TRUE}, has_structures : {TRUE}, has_BldgName : {TRUE},
     names : {BldgNames}, structures : {Layer(c, Geom("src", 1, 0, 0)) : c \in SrcCRS}]

IdleSrc == [exists |-> FALSE, fcs |-> <<>>]

IdleCsv == [exists |-> FALSE, fields |-> <<>>]

IdleGeoSrc ==
    [present |-> FALSE, garage |-> NoneGdf, structures |-> NoneGdf, overlap |-> FALSE]

NoGpkg == [exists |-> FALSE, dir |-> FALSE, layers |-> <<>>]

IdleCampus ==
    [exists |-> FALSE, has_structures |-> FALSE, has_BldgName |-> FALSE,
     names |-> <<>>, structures |-> Layer(NoCRS, Geom("src", 0, 0, 0))]

NoArgs ==
    [text |-> <<>>, force_sample |-> FALSE, input_given |-> FALSE, cwd_safe |-> FALSE,
     utmOk |-> FALSE, Selected_Name |-> <<>>, Buffer_Radius |-> 0]

----------------------------------------------------------------------------
(* The sessions *)

Init ==
    /\ schema = <<>> /\ xy = XYPending
    /\ rws = <<>> /\ rcands = <<>> /\ rres = ResolvePending
    /\ cin = NoneGdf /\ cout = CRSPending
    /\ tool \in {"arc", "geo", "lab5"}
    /\ in_gdb \in (IF tool = "arc" THEN ArcSources ELSE {IdleSrc})
    /\ csv_or_table \in (IF tool = "arc" THEN CsvTables ELSE {IdleCsv})
    /\ out_gdb = NoGdb
    /\ input_src \in (IF tool = "geo" THEN GeoSources ELSE {IdleGeoSrc})
    /\ output_path = NoGpkg
    /\ GDB_Folder \in (IF tool = "lab5" THEN BOOLEAN ELSE {FALSE})
    /\ Campus_GDB \in (IF tool = "lab5" THEN CampusGdbs ELSE {IdleCampus})
    /\ GDB_Full = NoGdb
    /\ outcome = "none"
    /\ calls = <<>>
    /\ args \in (IF tool = "geo"
                 THEN {[NoArgs EXCEPT !.force_sample = f, !.input_given = i,
                                      !.cwd_safe = c, !.utmOk = u] :
                          f \in BOOLEAN, i \in BOOLEAN, c \in BOOLEAN, u \in BOOLEAN}
                 ELSE {NoArgs})

\* one run of lab4_arcpy_tool.main
ArcMain ==
    /\ tool = "arc"
    /\ \E text \in BufferTexts :
         \E r \in {main(in_gdb, csv_or_table, out_gdb, text)} :
         /\ in_gdb' = r.src
         /\ out_gdb' = r.dst
         /\ calls' = r.log
         /\ outcome' = IF r.ok THEN "return 0" ELSE "return 1"
         /\ args' = [NoArgs EXCEPT !.text = text]
    /\ UNCHANGED <<pureVars, tool, csv_or_table, geoVars, lab5Vars>>

\* between runs the data of an input feature class is edited
EditSource ==
    /\ tool = "arc"
    /\ in_gdb.exists
    /\ \E k \in 1..Len(in_gdb.fcs), id \in 1..MaxGeom :
         /\ in_gdb.fcs[k].layer.geom.op = "src"
         /\ in_gdb.fcs[k].layer.geom.g # id
         /\ in_gdb' = [in_gdb EXCEPT !.fcs[k].layer.geom.g = id]
    /\ outcome' = "none"
    /\ calls' = <<>>
    /\ args' = NoArgs
    /\ UNCHANGED <<pureVars, tool, csv_or_table, out_gdb, geoVars, lab5Vars>>

\* one run of lab4_geopandas.main
GeoMain ==
    /\ tool = "geo"
    /\ \E failAt \in 0..4 :
         \E r \in {geo_main(input_src, output_path, args.force_sample, args.input_given,
                            args.cwd_safe, args.utmOk, failAt)} :
         /\ output_path' = r.out
         /\ calls' = r.log
         /\ outcome' = r.end
    /\ UNCHANGED <<pureVars, tool, arcVars, input_src, lab5Vars, args>>

\* one run of lab5_GISP_tool.main
Lab5Main ==
    /\ tool = "lab5"
    /\ \E csv_present \in BOOLEAN, pair \in 0..4, Selected_Name \in SelectedNames,
          Buffer_Radius \in Radii :
         \E m \in {lab5_main(GDB_Folder, Campus_GDB, GDB_Full, csv_present, pair,
                             Selected_Name, Buffer_Radius)} :
         /\ GDB_Full' = m.run.dst
         /\ calls' = m.run.log
         /\ outcome' = m.end
         /\ args' = [NoArgs EXCEPT !.Selected_Name = Selected_Name,
                                   !.Buffer_Radius = Buffer_Radius]
    /\ UNCHANGED <<pureVars, tool, arcVars, geoVars, GDB_Folder, Campus_GDB>>

Next == ArcMain \/ EditSource \/ GeoMain \/ Lab5Main

Spec == Init /\ [][Next]_vars

----------------------------------------------------------------------------
(* The three components on their own inputs *)

InitDetect ==
    /\ \E names \in NameLists : schema \in SchemasOf(names)
    /\ xy = XYPending
    /\ rws = <<>> /\ rcands = <<>> /\ rres = ResolvePending
    /\ cin = NoneGdf /\ cout = CRSPending
    /\ tool = ""
    /\ in_gdb = IdleSrc /\ csv_or_table = IdleCsv /\ out_gdb = NoGdb
    /\ input_src = IdleGeoSrc /\ output_path = NoGpkg
    /\ GDB_Folder = FALSE /\ Campus_GDB = IdleCampus /\ GDB_Full = NoGdb
    /\ outcome = "none" /\ calls = <<>> /\ args = NoArgs

InitResolve ==
    /\ schema = <<>> /\ xy = XYPending
    /\ rws \in DistinctSeqs(LayerNames, MaxLayers)
    /\ rcands \in CandLists
    /\ rres = ResolvePending
    /\ cin = NoneGdf /\ cout = CRSPending
    /\ tool = ""
    /\ in_gdb = IdleSrc /\ csv_or_table = IdleCsv /\ out_gdb = NoGdb
    /\ input_src = IdleGeoSrc /\ output_path = NoGpkg
    /\ GDB_Folder = FALSE /\ Campus_GDB = IdleCampus /\ GDB_Full = NoGdb
    /\ outcome = "none" /\ calls = <<>> /\ args = NoArgs

InitCRS ==
    /\ schema = <<>> /\ xy = XYPending
    /\ rws = <<>> /\ rcands = <<>> /\ rres = ResolvePending
    /\ cin \in Gdfs \cup {NoneGdf}
    /\ cout = CRSPending
    /\ tool = ""
    /\ in_gdb = IdleSrc /\ csv_or_table = IdleCsv /\ out_gdb = NoGdb
    /\ input_src = IdleGeoSrc /\ output_path = NoGpkg
    /\ GDB_Folder = FALSE /\ Campus_GDB = IdleCampus /\ GDB_Full = NoGdb
    /\ outcome = "none" /\ calls = <<>> /\ args = NoArgs

SpecDetect == InitDetect /\ [][Detect]_vars

SpecResolve == InitResolve /\ [][Find]_vars

SpecCRS == InitCRS /\ [][Ensure]_vars

----------------------------------------------------------------------------
(* Properties of the Layer Resolver, checked under SpecResolve *)

\* C5: for every workspace and ordered candidate list, if some candidate exists
\* exactly the first such candidate in list order is returned; otherwise, if
\* some layer name equals a candidate case-insensitively, the result is a layer
\* of the workspace matching the earliest such candidate (candidate order, not
\* enumeration order, decides); otherwise the result is None
C5_ResolverPriority ==
    rres.done =>
        LET ExactAt(i) == \E k \in 1..Len(rws) : rws[k] = rcands[i]
            LooseAt(i) == \E k \in 1..Len(rws) : Lower(rws[k]) = Lower(rcands[i])
            C == 1..Len(rcands)
        IN  IF \E i \in C : ExactAt(i)
            THEN \E i \in C :
                    /\ ExactAt(i)
                    /\ \A j \in 1..(i - 1) : ~ExactAt(j)
                    /\ rres.fc = rcands[i]
            ELSE IF \E i \in C : LooseAt(i)
                 THEN \E i \in C :
                         /\ LooseAt(i)
                         /\ \A j \in 1..(i - 1) : ~LooseAt(j)
                         /\ \E k \in 1..Len(rws) : rws[k] = rres.fc
                         /\ Lower(rres.fc) = Lower(rcands[i])
                 ELSE rres.fc = NoName

\* the workspace lists GARAGES before GARAGEPOINTS, neither is an exact
\* candidate, and the layer of the earlier candidate (GaragePoints) is returned
C5_Witness ==
    /\ rres.done
    /\ rcands = GarageCandidates
    /\ rws = <<l_GARAGES, l_GARAGEPOINTS>>
    /\ rres.fc = l_GARAGEPOINTS

----------------------------------------------------------------------------
(* Properties of the Field Heuristic Detector, checked under SpecDetect *)

\* the fields of the table are typed as the third reference schema requires
ABNumeric == IsNumericField(schema[2]) /\ IsNumericField(schema[3])

\* C6 (as stated): [id, capacity, X, Y] yields (X, Y); [id, lon, lat] yields
\* (lon, lat); [id, a, b] with a and b numeric yields (a, b) whatever the
\* declared type of id; [id, name] with no numeric field yields (None, None)
C6_ReferenceSchemas ==
    xy.done =>
        /\ Names(schema) = RefXY => xy.x = n_X /\ xy.y = n_Y
        /\ Names(schema) = RefLonLat => xy.x = n_lon /\ xy.y = n_lat
        /\ Names(schema) = RefAB /\ ABNumeric => xy.x = n_a /\ xy.y = n_b
        /\ (Names(schema) = RefName /\ \A i \in 1..Len(schema) : ~IsNumericField(schema[i]))
               => xy.x = NoName /\ xy.y = NoName

\* C6 (amended): as stated, except that [id, a, b] yields (a, b) when a and b
\* are numeric and id is not; a numeric id is itself the first numeric field
C6_ReferenceSchemasIdNotNumeric ==
    xy.done =>
        /\ Names(schema) = RefXY => xy.x = n_X /\ xy.y = n_Y
        /\ Names(schema) = RefLonLat => xy.x = n_lon /\ xy.y = n_lat
        /\ (Names(schema) = RefAB /\ ABNumeric /\ ~IsNumericField(schema[1]))
               => xy.x = n_a /\ xy.y = n_b
        /\ (Names(schema) = RefAB /\ ABNumeric /\ IsNumericField(schema[1]))
               => xy.x = n_id /\ xy.y = n_a
        /\ (Names(schema) = RefName /\ \A i \in 1..Len(schema) : ~IsNumericField(schema[i]))
               => xy.x = NoName /\ xy.y = NoName

\* [id, a, b] with a text id and numeric a and b: the fallback returned (a, b)
C6_Witness ==
    /\ xy.done
    /\ Names(schema) = RefAB
    /\ ABNumeric
    /\ ~IsNumericField(schema[1])
    /\ xy.x = n_a
    /\ xy.y = n_b

\* a field name that is, case-insensitively, one of x / lon / long / longitude
NameIsX(n) ==
    Lower(n) \in {<<"x">>, <<"l","o","n">>, <<"l","o","n","g">>,
                  <<"l","o","n","g","i","t","u","d","e">>}

\* a field name that is, case-insensitively, one of y / lat / latitude
NameIsY(n) ==
    Lower(n) \in {<<"y">>, <<"l","a","t">>, <<"l","a","t","i","t","u","d","e">>}

\* C7: for every schema, if each of the two name classes (x / lon / long /
\* longitude, and y / lat / latitude) has a field, the result is the first field
\* of each class in schema order; exactly when one class has no field the
\* numeric fallback decides: the first two numeric fields in schema order, as X
\* then Y, or (None, None) when there are fewer than two
C7_NameClassesAndFallback ==
    xy.done =>
        LET xs == {i \in 1..Len(schema) : NameIsX(schema[i].name)}
            ys == {i \in 1..Len(schema) : NameIsY(schema[i].name)}
            nums == {i \in 1..Len(schema) : IsNumericField(schema[i])}
        IN  IF xs # {} /\ ys # {}
            THEN /\ xy.x = schema[SetMin(xs)].name
                 /\ xy.y = schema[SetMin(ys)].name
            ELSE IF Cardinality(nums) >= 2
                 THEN /\ xy.x = schema[SetMin(nums)].name
                      /\ xy.y = schema[SetMin(nums \ {SetMin(nums)})].name
                 ELSE xy.x = NoName /\ xy.y = NoName

----------------------------------------------------------------------------
(* Properties of the Coordinate Reference Resolver, checked under SpecCRS *)

\* C2: for every input (geographic, projected, or without features) the layer
\* ensure_projected_for_buffer returns has a CRS with linear units, never a
\* geographic or absent one (a call that returns None returns no layer)
C2_CRSLinearity ==
    (cout.done /\ ~cout.raised /\ ~cout.gdf.none) => IsProjected(cout.gdf.crs)

\* C10: for a layer whose CRS is geographic or absent, whenever the UTM system
\* cannot be derived (no features, or the estimate raises) the call does not
\* raise and the layer is returned in EPSG:3857
C10_FallbackAvailability ==
    (/\ cout.done
     /\ ~cin.none
     /\ (cin.crs = NoCRS \/ is_geographic(cin.crs))
     /\ (empty(cin) \/ ~cout.utmOk))
        => ~cout.raised /\ cout.gdf.crs = WebMercator

----------------------------------------------------------------------------
(* Properties of the three tools, checked under Spec *)

\* the tools that produce the layers of a destination
Producers == {"Project", "Buffer", "Intersect", "Select", "Clip"}

\* every layer the destination held before a step is still there, the same,
\* and the calls of the step's run invoked no producer for its name
Kept(before, after, log) ==
    \A name \in DOMAIN before.layers :
        /\ \A i \in 1..Len(log) : log[i].op \in Producers => log[i].out # name
        /\ name \in DOMAIN after.layers
        /\ after.layers[name] = before.layers[name]

\* C1 (as stated): in the Lab4 arcpy tool and in the Lab5 tool, a run that finds
\* a layer of an output name in the destination invokes no producer (Project /
\* Buffer / Intersect / Select / Clip) for that name and leaves the layer as it was
C1_IdempotentMaterialization ==
    [][/\ tool = "arc" => Kept(out_gdb, out_gdb', calls')
       /\ tool = "lab5" => Kept(GDB_Full, GDB_Full', calls')]_vars

\* C1 (amended): in the Lab4 arcpy tool, a run that finds a layer of an output
\* name in the destination invokes no producer (Project / Buffer / Intersect)
\* for that name and leaves the layer as it was
C1_Lab4Idempotent ==
    [][tool = "arc" => Kept(out_gdb, out_gdb', calls')]_vars

\* a run of the arcpy tool returned 0 without calling any tool although the
\* Structures feature class had been edited since Structures_PRJ was projected
C1_Witness ==
    /\ tool = "arc"
    /\ outcome = "return 0"
    /\ calls = <<>>
    /\ HasLayer(out_gdb, "Structures_PRJ")
    /\ HasLayer(out_gdb, "Garage_Structures_Intersect")
    /\ \E k \in 1..Len(in_gdb.fcs) :
          /\ in_gdb.fcs[k].name = l_Structures
          /\ in_gdb.fcs[k].layer.geom.g # out_gdb.layers["Structures_PRJ"].geom.g

\* the four named layers are in the workspace, buf being the buffer's name
FourLayers(gdb, buf) ==
    /\ gdb.exists
    /\ {"GaragePoints_PRJ", "Structures_PRJ", buf, "Garage_Structures_Intersect"}
           \subseteq DOMAIN gdb.layers

\* the buffer layer's name for the distance the last arcpy run was given
RequestedBuffer == buffer_name(buffer_meters_of(args.text).v)

\* the workspace the GeoPandas main reads in this session
GeoRead == source_of(input_src, args.force_sample, args.input_given, args.cwd_safe).ws

CandidateMatches(gdb, names) ==
    \E i \in 1..Len(names), k \in 1..Len(gdb.fcs) :
        Lower(gdb.fcs[k].name) = Lower(names[i])

\* the table exists and the detector finds a coordinate pair in it
TableUsable(csv) ==
    /\ csv.exists
    /\ _detect_xy_fields(csv.fields).x # NoName
    /\ _detect_xy_fields(csv.fields).y # NoName

\* the arcpy tool cannot resolve one of its two source layers
ArcUnresolvable ==
    \/ ~CandidateMatches(in_gdb, GarageCandidates) /\ ~TableUsable(csv_or_table)
    \/ ~CandidateMatches(in_gdb, StructureCandidates)

\* a run of the arcpy tool that cannot resolve a source layer returns 1 and
\* leaves the output geodatabase as it was (not created, no layer written)
ArcResolutionFatal ==
    (tool = "arc" /\ outcome' # "none" /\ ArcUnresolvable)
        => outcome' = "return 1" /\ out_gdb' = out_gdb

\* the GeoPackage is as it was: not created, no layer written
GpkgUntouched ==
    /\ output_path'.exists = output_path.exists
    /\ output_path'.layers = output_path.layers

\* C4 (as stated): if the garages layer or the structures layer cannot be
\* resolved, the run ends in failure, writes no layer to the destination and
\* does not create it
C4_ResolutionFailureFatal ==
    [][/\ ArcResolutionFatal
       /\ (/\ tool = "geo"
           /\ \/ read_layer_safe(GeoRead, GeoRead.garage).none
              \/ read_layer_safe(GeoRead, GeoRead.structures).none)
              => outcome' \in {"Exiting", "raised"} /\ GpkgUntouched]_vars

\* C4 (amended): as stated for the arcpy tool; the GeoPandas tool ends
\* ('Exiting') without writing a layer or creating the GeoPackage when neither
\* layer can be read
C4_FatalArcAndGeoNeitherRead ==
    [][/\ ArcResolutionFatal
       /\ (/\ tool = "geo"
           /\ read_layer_safe(GeoRead, GeoRead.garage).none
           /\ read_layer_safe(GeoRead, GeoRead.structures).none)
              => outcome' = "Exiting" /\ GpkgUntouched]_vars

\* the arcpy tool found the garages but no structures, returned 1, and there is
\* no output geodatabase
C4_Witness ==
    /\ tool = "arc"
    /\ outcome = "return 1"
    /\ in_gdb.exists
    /\ CandidateMatches(in_gdb, GarageCandidates)
    /\ ~CandidateMatches(in_gdb, StructureCandidates)
    /\ ~out_gdb.exists

FallbackTaken ==
    /\ buffer_meters_of(args'.text).ok
    /\ in_gdb.exists
    /\ ~CandidateMatches(in_gdb, GarageCandidates)
    /\ TableUsable(csv_or_table)

\* the input geodatabase has gained exactly the feature class GaragePoints
GaragePointsAdded ==
    /\ in_gdb'.exists = in_gdb.exists
    /\ Len(in_gdb'.fcs) = Len(in_gdb.fcs) + 1
    /\ SubSeq(in_gdb'.fcs, 1, Len(in_gdb.fcs)) = in_gdb.fcs
    /\ in_gdb'.fcs[Len(in_gdb'.fcs)].name = l_GaragePoints
    /\ \A k \in 1..Len(in_gdb.fcs) : in_gdb.fcs[k].name # l_GaragePoints

\* C9: a run of the arcpy tool leaves the input geodatabase as it was, except
\* that a run taking the table fallback adds exactly one feature class,
\* GaragePoints, and changes nothing else in it, also when the run later fails
C9_SourceFrame ==
    [][(tool = "arc" /\ outcome' # "none")
          => IF FallbackTaken THEN GaragePointsAdded ELSE in_gdb' = in_gdb]_vars

\* a run made GaragePoints from the table and then failed (no structures)
C9_Witness ==
    /\ tool = "arc"
    /\ outcome = "return 1"
    /\ CallsOf(calls, "XYTableToPoint") # {}
    /\ \E k \in 1..Len(in_gdb.fcs) : in_gdb.fcs[k].name = l_GaragePoints
    /\ ~out_gdb.exists

\* C11: the buffer layer's name encodes the distance: after a run of the arcpy
\* tool that returned 0, the layer under the name for the requested distance is
\* a buffer by that distance (a buffer made for another accepted distance, such
\* as 150.2 for 150.8, is never under that name)
C11_BufferNameEncodesDistance ==
    (tool = "arc" /\ outcome = "return 0")
        => /\ HasLayer(out_gdb, RequestedBuffer)
           /\ out_gdb.layers[RequestedBuffer].geom.d = buffer_meters_of(args.text).v

\* the feature class of the input geodatabase that the candidate names resolve to
Resolved(names) ==
    FcNamed(in_gdb, _find_candidate_featureclass(FcNames(in_gdb), names))

\* C12: after any sequence of runs of the arcpy tool on one destination, a run
\* that returned 0 leaves Garage_Structures_Intersect equal to the intersection
\* of the buffer layer for the distance it was given with Structures_PRJ, and
\* GaragePoints_PRJ and Structures_PRJ equal to the projections of the source
\* layers it resolved
C12_OutputConsistency ==
    (tool = "arc" /\ outcome = "return 0")
        => /\ FourLayers(out_gdb, RequestedBuffer)
           /\ out_gdb.layers["Garage_Structures_Intersect"]
                 = Intersect(out_gdb.layers[RequestedBuffer],
                             out_gdb.layers["Structures_PRJ"])
           /\ out_gdb.layers["GaragePoints_PRJ"]
                 = Project(Resolved(GarageCandidates), target_sr)
           /\ out_gdb.layers["Structures_PRJ"]
                 = Project(Resolved(StructureCandidates), target_sr)

----------------------------------------------------------------------------
(* A further property of the Field Heuristic Detector, checked under SpecDetect *)

\* C13: for every schema on which _detect_xy_fields returns a pair, the two
\* returned names are names of two different fields of the schema, whether the
\* pair came from the name patterns or from the numeric fallback
C13_DistinctFields ==
    (xy.done /\ (xy.x # NoName \/ xy.y # NoName))
        => /\ \E i \in 1..Len(schema) : schema[i].name = xy.x
           /\ \E i \in 1..Len(schema) : schema[i].name = xy.y
           /\ xy.x # xy.y

====
